---- MODULE Spec2Model ----
(***************************************************************************)
(* Authenticated transport of siigo_connector: SyncTransport.request       *)
(* (src/src/siigo_connector/_http.py) on top of the token cache SiigoAuth, *)
(* the resources that call it (resources/customers.py, webhooks.py) and    *)
(* the configuration (config.py).                                          *)
(* auth.py is not part of the available sources, so the token cache is     *)
(* modelled from section 4.2 of the specification and from the tests that  *)
(* exercise it (src/tests/test_auth.py).                                   *)
(*                                                                         *)
(* One request() call is a sequence of steps of one thread: token lookup,  *)
(* credential exchange, HTTP call, each of which talks to the outside      *)
(* world and is therefore a separate action.  Every deterministic piece of *)
(* code between two such interactions is part of the action before it.     *)
(***************************************************************************)
EXTENDS Integers, Sequences, FiniteSets, TLC

\* ---------------------------------------------------------------- bounds
MaxTime == 2          \* the clock runs over 0..MaxTime
MaxExchanges == 3     \* credential exchanges in one behaviour

\* ------------------------------------------------------------- constants
StopAfterAttempt == 3             \* stop_after_attempt(3)
NoToken == 0                      \* auth._token is None
NoExpiry == -1                    \* auth._exp_ts is None
NoExpiresIn == 0                  \* the token response carries no expires_in

Threads == {1, 2}
Callers == {1}                    \* threads that call into the client in Spec

None == "None"
PartnerIds == {None, "test_partner"}
Usernames == {None, "test_user"}

\* the fields of Config with their defaults (timeout: 30.0 seconds)
ConfigDefaults ==
  [base_url |-> "https://api.siigo.com",
   timeout |-> 30,
   user_agent |-> "siigo-connector/0.1.0 (+https://github.com/arendondiosa/siigo-connector)",
   username |-> None,
   access_key |-> None,
   partner_id |-> None]

\* Config(**kw): the fields passed, the defaults for the others
Config(kw) ==
  [f \in DOMAIN ConfigDefaults |->
     IF f \in DOMAIN kw THEN kw[f] ELSE ConfigDefaults[f]]

\* Config() with no arguments
NoArgs == [f \in {} |-> None]

\* Config(...): frozen dataclass; access_key is given together with username
Configs ==
  { Config([username |-> u, access_key |-> u, partner_id |-> p]) :
      u \in Usernames, p \in PartnerIds }

\* ------------------------------------------------------------- headers
\* A header mapping is a function from header names to values; a value is a
\* pair <<text, token>>, so that f"Bearer {tok}" is <<"Bearer", tok>>.
EmptyHeaders == [k \in {} |-> <<"", 0>>]
Str(s) == <<s, 0>>
Bearer(tok) == <<"Bearer", tok>>

\* {**a, **b}
Merge(a, b) ==
  [k \in (DOMAIN a) \cup (DOMAIN b) |-> IF k \in DOMAIN b THEN b[k] ELSE a[k]]

\* the headers= argument the caller passes to request(); has = FALSE when the
\* keyword is not passed at all
NoHeadersKw == [has |-> FALSE, headers |-> EmptyHeaders]
CallerKwargs ==
  { NoHeadersKw,
    [has |-> TRUE, headers |-> EmptyHeaders],
    [has |-> TRUE, headers |-> [k \in {"X-Custom-Header"} |-> Str("custom_value")]],
    [has |-> TRUE, headers |-> [k \in {"Authorization"} |-> Str("caller_auth")]] }

\* kwargs.pop("headers", {}): the value handed back ...
PopValue(kw) == IF kw.has THEN kw.headers ELSE EmptyHeaders
\* ... and kwargs afterwards
PopRest(kw) == NoHeadersKw

\* variant: Partner-Id without the `or ""`
Headers_NoneLiteral(c, tok) ==
  Merge([k \in {"Partner-Id"} |-> Str(c.partner_id)],
        [k \in {"Authorization"} |-> Bearer(tok)])

\* SyncTransport._headers with tok = self.auth.token()
Headers(c, tok) ==
  Merge([k \in {"Partner-Id"} |->
           IF c.partner_id = None THEN Str("") ELSE Str(c.partner_id)],
        [k \in {"Authorization"} |-> Bearer(tok)])

\* ------------------------------------------------------------ outcomes
Statuses == {200, 204, 399, 400, 401, 500}
\* exceptions httpx.Client.request / post can raise; all are httpx.HTTPError
HTTPErrorTypes == {"ConnectError", "ReadError", "ConnectTimeout", "ReadTimeout"}
\* statuses with which the token endpoint can refuse
AuthErrorStatuses == {401, 500}
ExpiresInValues == {NoExpiresIn, 1, 2}

\* response bodies (resp.text)
Texts == {"Bad Request", "Not Found"}

\* str(e) of the exceptions httpx raises
ErrorMessage ==
  [ty \in HTTPErrorTypes |->
     CASE ty = "ConnectError" -> "All connection attempts failed"
       [] ty = "ReadError" -> "Connection reset by peer"
       [] ty = "ConnectTimeout" -> "Connection timeout"
       [] OTHER -> "The read operation timed out"]

\* an exception: its class, and for APIResponseError its status; str(e)
ExcMsg(type, status, message) ==
  [type |-> type, status |-> status, message |-> message]
Exc(type, status) == ExcMsg(type, status, "")

\* variant: the except httpx.HTTPError clause comes first
Catch_HTTPErrorFirst(e) ==
  IF e.type \in HTTPErrorTypes
  THEN ExcMsg("APIConnectionError", 0, e.message) ELSE e

\* variant: except Exception in place of except httpx.HTTPError
Catch_AnyException(e) ==
  IF e.type = "ConnectTimeout" THEN ExcMsg("APITimeoutError", 0, e.message)
  ELSE ExcMsg("APIConnectionError", 0, e.message)

\* variant: except httpx.TimeoutException in place of httpx.ConnectTimeout
Catch_TimeoutException(e) ==
  IF e.type \in {"ConnectTimeout", "ReadTimeout"}
  THEN ExcMsg("APITimeoutError", 0, e.message)
  ELSE IF e.type \in HTTPErrorTypes THEN ExcMsg("APIConnectionError", 0, e.message)
  ELSE e

\* variant: except httpx.ConnectError in place of httpx.HTTPError
Catch_ConnectOnly(e) ==
  IF e.type = "ConnectTimeout" THEN ExcMsg("APITimeoutError", 0, e.message)
  ELSE IF e.type = "ConnectError" THEN ExcMsg("APIConnectionError", 0, e.message)
  ELSE e

\* except httpx.ConnectTimeout / except httpx.HTTPError around the body
Catch(e) ==
  IF e.type = "ConnectTimeout" THEN ExcMsg("APITimeoutError", 0, e.message)
  ELSE IF e.type \in HTTPErrorTypes THEN ExcMsg("APIConnectionError", 0, e.message)
  ELSE e

\* retry_if_exception_type((httpx.ConnectError, httpx.ReadError))
RetryIf(e) == e.type \in {"ConnectError", "ReadError"}

\* variants of the 401 check: never retried; retried after every 401; retried
\* without the refetch; retried after every error status
AfterResponse_NoRetry(stage, status) == "classify"
AfterResponse_Every401(stage, status) ==
  IF status = 401 THEN "fetch" ELSE "classify"
AfterResponse_NoRefetch(stage, status) ==
  IF stage = 1 /\ status = 401 THEN "token" ELSE "classify"
AfterResponse_AnyError(stage, status) ==
  IF stage = 1 /\ status >= 400 THEN "fetch" ELSE "classify"

\* variant: while resp.status_code == 401 the call is re-issued
AfterResponse_While401(stage, status) ==
  IF status = 401 THEN "token" ELSE "classify"

\* if resp.status_code == 401 after the first call: where control goes
\* ("fetch": self.auth._fetch() and the second call; "classify": line 40)
AfterResponse(stage, status) ==
  IF stage = 1 /\ status = 401 THEN "fetch" ELSE "classify"

\* variant: > 400
IsErrorStatus_Above400(status) == status > 400

\* if resp.status_code >= 400: raise APIResponseError
IsErrorStatus(status) == status >= 400

\* APIResponseError(resp.status_code, resp.text)
ResponseError(r) == ExcMsg("APIResponseError", r.status, r.text)

NoOutcome ==
  [kind |-> "none", type |-> "", status |-> 0, message |-> "", resp |-> 0, tok |-> 0]
Raised(e) ==
  [kind |-> "raise", type |-> e.type, status |-> e.status, message |-> e.message,
   resp |-> 0, tok |-> 0]
Returned(r) ==
  [kind |-> "return", type |-> "", status |-> r.status, message |-> "",
   resp |-> r.id, tok |-> 0]
ReturnedToken(tok) ==
  [kind |-> "return", type |-> "", status |-> 0, message |-> "", resp |-> 0, tok |-> tok]

NoResp == [id |-> 0, status |-> 0, text |-> ""]

\* what one call has done so far, in order
\* (why: the state of the cache that led to an exchange)
\* (tok, expires_in: what the token endpoint answered)
\* (text: the body of the answer, or str(e) of the exception raised)
\* (valid: the cache held a valid token when the exchange was made)
FetchEvent(why, res, status, tok, expires_in, text, valid) ==
  [op |-> "fetch", why |-> why, res |-> res, status |-> status,
   headers |-> EmptyHeaders, tok |-> tok, expires_in |-> expires_in,
   text |-> text, valid |-> valid]
HttpEvent(h, res, status, text) ==
  [op |-> "http", why |-> "", res |-> res, status |-> status,
   headers |-> h, tok |-> NoToken, expires_in |-> NoExpiresIn,
   text |-> text, valid |-> FALSE]

VARIABLES cfg, token, exp_ts, now, nExch, th
\* the resource layer: the customers.list() generator, the webhooks.delete()
\* call, the _request calls these two have made, the attribute assignment
\* last tried on the configuration
VARIABLES gen, del, reqs, attr
resVars == <<gen, del, reqs, attr>>
vars == <<cfg, token, exp_ts, now, nExch, th, gen, del, reqs, attr>>

\* ---------------------------------------------------------- token cache
\* the error of step 1 (ValueError in test_siigo_auth_missing_credentials)
ConfigurationError ==
  ExcMsg("ValueError", 0, "username, access_key and partner_id are required")

\* variant: no credentials check
HasCredentials_Unchecked(c) == TRUE

\* step 1 of getToken(): the credentials a fetch needs
HasCredentials(c) == c.username # None /\ c.access_key # None

\* variants of the validity test: a safety margin before the expiry; expiry
\* compared with <=; a token without expiry never valid
TokenValid_Margin(tok, exp, t) == tok # NoToken /\ (exp = NoExpiry \/ t + 1 < exp)
TokenValid_NonStrict(tok, exp, t) == tok # NoToken /\ (exp = NoExpiry \/ t <= exp)
TokenValid_NeedsExpiry(tok, exp, t) == tok # NoToken /\ exp # NoExpiry /\ t < exp

\* step 2 of getToken(): a cached token exists and has no expiry or now < expiresAt
TokenValid(tok, exp, t) == tok # NoToken /\ (exp = NoExpiry \/ t < exp)

\* step 4: a non-2xx answer of the token endpoint
AuthTexts == {"Unauthorized"}
\* variant: every failed fetch reported with status 500
FetchError_Always500(status, text) == ExcMsg("APIResponseError", 500, text)

FetchError(status, text) == ExcMsg("APIResponseError", status, text)

\* variant: the HTTP status of the answer is reported
NoTokenError_Status200 ==
  ExcMsg("APIResponseError", 200, "No access_token in response")

\* step 3: a 200 answer of the token endpoint without access_token
NoTokenError == ExcMsg("APIResponseError", 500, "No access_token in response")

\* step 3: expiresAt = now + expires_in when expires_in is present
ExpiresAt(t, expires_in) ==
  IF expires_in = NoExpiresIn THEN NoExpiry ELSE t + expires_in

\* ------------------------------------------------------ resource layer
\* no generator made by customers.list(); no webhooks.delete() call; no
\* attribute assignment tried
NoGen ==
  [pc |-> "none", created_start |-> None, body |-> "", items |-> << >>,
   yielded |-> << >>, exc |-> ""]
NoDel == [pc |-> "none", webhook_id |-> "", exc |-> "", message |-> << >>]
NoAttr == [name |-> "", exc |-> ""]
\* the _request calls of the current list() and of the current delete()
NoReqs == [customers |-> << >>, webhooks |-> << >>]

\* ------------------------------------------------------- thread records
Idle ==
  [pc |-> "idle", op |-> "none", stage |-> 0, forced |-> FALSE, attempt |-> 0,
   args |-> NoHeadersKw, kwargs |-> NoHeadersKw, built |-> EmptyHeaders,
   tokRet |-> NoToken, resp |-> NoResp, outcome |-> NoOutcome, log |-> << >>,
   cache0 |-> [token |-> NoToken, exp_ts |-> NoExpiry],
   earlier |-> [on |-> FALSE, retried |-> FALSE, failed |-> FALSE]]

\* the cache as a call finds it
Cache0 == [token |-> token, exp_ts |-> exp_ts]

\* History of a client, kept when `on` (it is no state of the program): what
\* the calls made so far, the one thread record r holds included, have been
\* through: a 401 retry used, an exception raised.
Earlier(r) ==
  IF r.earlier.on
  THEN [on |-> TRUE,
        retried |-> r.earlier.retried
                      \/ \E k \in 1..Len(r.log) : r.log[k].why = "forced",
        failed |-> r.earlier.failed \/ r.outcome.kind = "raise"]
  ELSE r.earlier

\* variant: the stage reached by the call before is kept (a retry flag held
\* on the transport and never reset)
Enter_KeepStage(r, kw) ==
  [Idle EXCEPT !.pc = "token", !.op = "request",
               !.stage = IF r.stage = 2 THEN 2 ELSE 1,
               !.attempt = 1, !.args = kw, !.kwargs = kw,
               !.cache0 = Cache0, !.earlier = Earlier(r)]

\* request(method, url, **kw) is entered: the locals of a new call
Enter(r, kw) ==
  [Idle EXCEPT !.pc = "token", !.op = "request", !.stage = 1,
               !.attempt = 1, !.args = kw, !.kwargs = kw,
               !.cache0 = Cache0, !.earlier = Earlier(r)]

Init ==
  /\ cfg \in Configs
  /\ token = NoToken
  /\ exp_ts = NoExpiry
  /\ now = 0
  /\ nExch = 0
  /\ th = [t \in Threads |-> Idle]
  /\ gen = NoGen
  /\ del = NoDel
  /\ reqs = NoReqs
  /\ attr = NoAttr

Https(l) == SelectSeq(l, LAMBDA e : e.op = "http")
Fetches(l) == SelectSeq(l, LAMBDA e : e.op = "fetch")
ForcedFetches(l) == SelectSeq(l, LAMBDA e : e.op = "fetch" /\ e.why = "forced")

\* why thread record r is exchanging credentials now
Why(r) ==
  IF r.forced THEN "forced"
  ELSE IF token = NoToken THEN "empty"
  ELSE IF exp_ts # NoExpiry /\ now = exp_ts THEN "at_expiry"
  ELSE IF exp_ts # NoExpiry /\ now > exp_ts THEN "past_expiry"
  ELSE "valid"

\* variant: an exception of the forced refetch is swallowed and the 401
\* response is classified
Throw_KeepResponse(r, e) ==
  IF r.op = "token"
  THEN [r EXCEPT !.pc = "done", !.outcome = Raised(e)]
  ELSE IF r.forced
  THEN [r EXCEPT !.pc = "done",
                 !.outcome = [Raised(ResponseError(r.resp)) EXCEPT !.resp = r.resp.id]]
  ELSE LET c == Catch(e) IN
       IF RetryIf(c)
       THEN IF r.attempt < StopAfterAttempt
            THEN [r EXCEPT !.pc = "token", !.stage = 1, !.forced = FALSE,
                           !.attempt = r.attempt + 1, !.kwargs = r.args,
                           !.tokRet = NoToken]
            ELSE [r EXCEPT !.pc = "done", !.outcome = Raised(Exc("RetryError", 0))]
       ELSE [r EXCEPT !.pc = "done", !.outcome = Raised(c)]

\* An exception e leaves the code thread record r is running.  Inside
\* request() it passes the except clauses and then the tenacity wrapper,
\* which calls the body again or lets it out; from a direct auth.token()
\* call it reaches the caller as it is.
Throw(r, e) ==
  IF r.op = "token"
  THEN [r EXCEPT !.pc = "done", !.outcome = Raised(e)]
  ELSE LET c == Catch(e) IN
       IF RetryIf(c)
       THEN IF r.attempt < StopAfterAttempt
            THEN [r EXCEPT !.pc = "token", !.stage = 1, !.forced = FALSE,
                           !.attempt = r.attempt + 1, !.kwargs = r.args,
                           !.tokRet = NoToken]
            ELSE [r EXCEPT !.pc = "done", !.outcome = Raised(Exc("RetryError", 0))]
       ELSE [r EXCEPT !.pc = "done", !.outcome = Raised(c)]

\* auth.token() returns tok to the code thread record r is running: a direct
\* caller gets it; _headers() builds the headers for the call that follows.
TokenReturn(r, tok) ==
  IF r.op = "token"
  THEN [r EXCEPT !.pc = "done", !.tokRet = tok, !.outcome = ReturnedToken(tok)]
  ELSE [r EXCEPT !.pc = "send", !.tokRet = tok, !.built = Headers(cfg, tok)]

\* ------------------------------------------------------------- actions
\* transport.request(method, url, **kw): enter the body for the first time
Request(t, kw) ==
  /\ th[t].pc \in {"idle", "done"}
  /\ th' = [th EXCEPT ![t] = Enter(th[t], kw)]
  /\ UNCHANGED <<cfg, token, exp_ts, now, nExch, resVars>>

\* auth.token() called directly
Token(t) ==
  /\ th[t].pc \in {"idle", "done"}
  /\ th' = [th EXCEPT ![t] =
              [Idle EXCEPT !.pc = "token", !.op = "token", !.cache0 = Cache0,
                           !.earlier = Earlier(th[t])]]
  /\ UNCHANGED <<cfg, token, exp_ts, now, nExch, resVars>>

\* auth.token(): credentials check, then the cached token or the fetch path
TokenCheck(t) ==
  /\ th[t].pc = "token"
  /\ th' = [th EXCEPT ![t] =
              IF ~HasCredentials(cfg)
              THEN Throw(th[t], ConfigurationError)
              ELSE IF TokenValid(token, exp_ts, now)
              THEN TokenReturn(th[t], token)
              ELSE [th[t] EXCEPT !.pc = "fetch", !.forced = FALSE]]
  /\ UNCHANGED <<cfg, token, exp_ts, now, nExch, resVars>>

\* variant: single flight; the cache is looked at again before the exchange
FetchOk_Recheck(t, expires_in) ==
  /\ th[t].pc = "fetch"
  /\ IF ~th[t].forced /\ TokenValid(token, exp_ts, now)
     THEN /\ th' = [th EXCEPT ![t] = TokenReturn(th[t], token)]
          /\ UNCHANGED <<token, exp_ts, nExch>>
     ELSE /\ nExch < MaxExchanges
          /\ nExch' = nExch + 1
          /\ token' = nExch + 1
          /\ exp_ts' = ExpiresAt(now, expires_in)
          /\ LET r == [th[t] EXCEPT !.log =
                         Append(@, FetchEvent(Why(th[t]), "ok", 200, nExch + 1,
                                              expires_in, "",
                                              TokenValid(token, exp_ts, now)))]
             IN th' = [th EXCEPT ![t] =
                         IF r.forced
                         THEN [r EXCEPT !.pc = "token", !.stage = 2, !.forced = FALSE,
                                        !.tokRet = NoToken]
                         ELSE TokenReturn(r, nExch + 1)]
  /\ UNCHANGED <<cfg, now, resVars>>

\* auth._fetch(): the credential exchange succeeds with a new token
FetchOk(t, expires_in) ==
  /\ th[t].pc = "fetch"
  /\ nExch < MaxExchanges
  /\ nExch' = nExch + 1
  /\ token' = nExch + 1
  /\ exp_ts' = ExpiresAt(now, expires_in)
  /\ LET r == [th[t] EXCEPT !.log =
                 Append(@, FetchEvent(Why(th[t]), "ok", 200, nExch + 1, expires_in,
                                      "", TokenValid(token, exp_ts, now)))]
     IN th' = [th EXCEPT ![t] =
                 IF r.forced
                 THEN [r EXCEPT !.pc = "token", !.stage = 2, !.forced = FALSE,
                                !.tokRet = NoToken]
                 ELSE TokenReturn(r, nExch + 1)]
  /\ UNCHANGED <<cfg, now, resVars>>

\* variant: a failed exchange invalidates the cache
FetchFail_ClearsCache(t, e, res, status, text) ==
  /\ th[t].pc = "fetch"
  /\ nExch < MaxExchanges
  /\ nExch' = nExch + 1
  /\ token' = NoToken
  /\ exp_ts' = NoExpiry
  /\ th' = [th EXCEPT ![t] =
              Throw([th[t] EXCEPT !.log =
                       Append(@, FetchEvent(Why(th[t]), res, status, NoToken,
                                            NoExpiresIn, text,
                                            TokenValid(token, exp_ts, now)))],
                    e)]
  /\ UNCHANGED <<cfg, now, resVars>>

\* auth._fetch(): the exchange fails: a non-2xx status, a 200 body without
\* access_token, or the connection to the token endpoint fails
FetchFail(t, e, res, status, text) ==
  /\ th[t].pc = "fetch"
  /\ nExch < MaxExchanges
  /\ nExch' = nExch + 1
  /\ th' = [th EXCEPT ![t] =
              Throw([th[t] EXCEPT !.log =
                       Append(@, FetchEvent(Why(th[t]), res, status, NoToken,
                                            NoExpiresIn, text,
                                            TokenValid(token, exp_ts, now)))],
                    e)]
  /\ UNCHANGED <<cfg, token, exp_ts, now, resVars>>

\* self.client.request(method, url, headers={**built, **kwargs.pop(...)})
\* answers with a response; the 401 check and the classification follow
SendResponse(t, status, text) ==
  /\ th[t].pc = "send"
  /\ LET h == Merge(th[t].built, PopValue(th[t].kwargs))
         l == Append(th[t].log, HttpEvent(h, "response", status, text))
         rs == [id |-> Len(Https(l)), status |-> status, text |-> text]
         r == [th[t] EXCEPT !.kwargs = PopRest(@), !.log = l, !.resp = rs]
     IN th' = [th EXCEPT ![t] =
                 IF AfterResponse(r.stage, status) = "fetch"
                 THEN [r EXCEPT !.pc = "fetch", !.forced = TRUE]
                 ELSE IF AfterResponse(r.stage, status) = "token"
                 THEN [r EXCEPT !.pc = "token", !.stage = 2, !.tokRet = NoToken]
                 ELSE IF IsErrorStatus(status)
                 THEN [r EXCEPT !.pc = "done",
                                !.outcome = [Raised(ResponseError(rs))
                                               EXCEPT !.resp = rs.id]]
                 ELSE [r EXCEPT !.pc = "done", !.outcome = Returned(rs)]]
  /\ UNCHANGED <<cfg, token, exp_ts, now, nExch, resVars>>

\* self.client.request(...) raises
SendRaise(t, type) ==
  /\ th[t].pc = "send"
  /\ LET h == Merge(th[t].built, PopValue(th[t].kwargs))
         r == [th[t] EXCEPT !.kwargs = PopRest(@),
                            !.log = Append(@, HttpEvent(h, type, 0, ErrorMessage[type]))]
     IN th' = [th EXCEPT ![t] = Throw(r, ExcMsg(type, 0, ErrorMessage[type]))]
  /\ UNCHANGED <<cfg, token, exp_ts, now, nExch, resVars>>

\* time.time() advances
Tick ==
  /\ now < MaxTime
  /\ now' = now + 1
  /\ UNCHANGED <<cfg, token, exp_ts, nExch, th, resVars>>

Step(t) ==
  \/ \E kw \in CallerKwargs : Request(t, kw)
  \/ Token(t)
  \/ TokenCheck(t)
  \/ \E x \in ExpiresInValues : FetchOk(t, x)
  \/ \E s \in AuthErrorStatuses, x \in AuthTexts :
       FetchFail(t, FetchError(s, x), "http_error", s, x)
  \/ FetchFail(t, NoTokenError, "no_token", 200, "")
  \/ \E ty \in {"ConnectError", "ConnectTimeout"} :
       FetchFail(t, ExcMsg(ty, 0, ErrorMessage[ty]), ty, 0, ErrorMessage[ty])
  \/ \E s \in Statuses, x \in Texts : SendResponse(t, s, x)
  \/ \E ty \in HTTPErrorTypes : SendRaise(t, ty)

Next == (\E t \in Callers : Step(t)) \/ Tick

Spec == Init /\ [][Next]_vars

\* the same client, with the history of its calls kept
InitCalls ==
  /\ cfg \in {c \in Configs : c.username # None /\ c.partner_id # None}
  /\ token = NoToken
  /\ exp_ts = NoExpiry
  /\ now = 0
  /\ nExch = 0
  /\ th = [t \in Threads |-> [Idle EXCEPT !.earlier.on = TRUE]]
  /\ gen = NoGen
  /\ del = NoDel
  /\ reqs = NoReqs
  /\ attr = NoAttr

SpecCalls == InitCalls /\ [][Next]_vars

\* two threads call into one client; their steps interleave
ConcStep(t) ==
  \/ Token(t)
  \/ Request(t, NoHeadersKw)
  \/ TokenCheck(t)
  \/ FetchOk(t, 1)
  \/ SendResponse(t, 200, "Not Found")

NextConc == (\E t \in Threads : ConcStep(t)) \/ Tick

InitConc ==
  /\ cfg \in {c \in Configs : c.username # None /\ c.partner_id # None}
  /\ token = NoToken
  /\ exp_ts = NoExpiry
  /\ now = 0
  /\ nExch = 0
  /\ th = [t \in Threads |-> Idle]
  /\ gen = NoGen
  /\ del = NoDel
  /\ reqs = NoReqs
  /\ attr = NoAttr

SpecConc == InitConc /\ [][NextConc]_vars

\* ======================================================================
\* Resources: CustomersResource.list, WebhookResource.delete, and the frozen
\* configuration.  A resource calls self._request(method, url, ...), which is
\* the transport's request(); the steps of that call are the ones above.
\* ======================================================================
CreatedStarts == {None, "", "2024-01-01T00:00:00Z"}
WebhookIds == {"wh-1"}

\* f"{base_url}/v1/customers", f"{base_url}/v1/webhooks", as their parts
CustomersBase(c) == <<c.base_url, "/v1/customers">>
WebhooksBase(c) == <<c.base_url, "/v1/webhooks">>
\* f"{self._base}/{webhook_id}"
WebhookUrl(c, id) == WebhooksBase(c) \o <<"/", id>>

EmptyParams == [k \in {} |-> ""]

\* variant: created_start is passed whenever it is not None
ListParams_NotNone(created_start) ==
  IF created_start # None
  THEN [k \in {"created_start"} |-> created_start] ELSE EmptyParams

\* params = {}; if created_start: params["created_start"] = created_start
ListParams(created_start) ==
  IF created_start # None /\ created_start # ""
  THEN [k \in {"created_start"} |-> created_start] ELSE EmptyParams

\* JSON values: null, a list, a string
JNone == [kind |-> "none", items |-> << >>, str |-> ""]
JList(l) == [kind |-> "list", items |-> l, str |-> ""]
JStr(x) == [kind |-> "str", items |-> << >>, str |-> x]

\* customer objects of a payload (valid: the fields Customer requires are there)
Item(id, valid) == [id |-> id, valid |-> valid]

\* the bodies the customers endpoint answers with
Bodies ==
  { "{}",
    "{\"results\": []}",
    "{\"results\": [c1, c2]}",
    "{\"data\": [c3]}",
    "{\"results\": [], \"data\": [c3]}",
    "{\"results\": [c1], \"data\": [c3]}",
    "{\"results\": null, \"data\": [c3, c1]}",
    "{\"results\": [c2, incomplete]}",
    "{\"results\": \"error\"}",
    "" }

\* r.json(): ok = FALSE when the body is not JSON
Json(text) ==
  LET c1 == Item("test-id-1", TRUE)
      c2 == Item("test-id-2", TRUE)
      c3 == Item("test-id-3", TRUE)
      incomplete == Item("test-id-4", FALSE)
      Obj(d) == [ok |-> TRUE, obj |-> d]
  IN CASE text = "{}" -> Obj([k \in {} |-> JNone])
       [] text = "{\"results\": []}" -> Obj([k \in {"results"} |-> JList(<< >>)])
       [] text = "{\"results\": [c1, c2]}" ->
            Obj([k \in {"results"} |-> JList(<<c1, c2>>)])
       [] text = "{\"data\": [c3]}" -> Obj([k \in {"data"} |-> JList(<<c3>>)])
       [] text = "{\"results\": [], \"data\": [c3]}" ->
            Obj([k \in {"results", "data"} |->
                   IF k = "results" THEN JList(<< >>) ELSE JList(<<c3>>)])
       [] text = "{\"results\": [c1], \"data\": [c3]}" ->
            Obj([k \in {"results", "data"} |->
                   IF k = "results" THEN JList(<<c1>>) ELSE JList(<<c3>>)])
       [] text = "{\"results\": null, \"data\": [c3, c1]}" ->
            Obj([k \in {"results", "data"} |->
                   IF k = "results" THEN JNone ELSE JList(<<c3, c1>>)])
       [] text = "{\"results\": [c2, incomplete]}" ->
            Obj([k \in {"results"} |-> JList(<<c2, incomplete>>)])
       [] text = "{\"results\": \"error\"}" -> Obj([k \in {"results"} |-> JStr("error")])
       [] OTHER -> [ok |-> FALSE, obj |-> [k \in {} |-> JNone]]

\* data.get(k)
Get(d, k) == IF k \in DOMAIN d THEN d[k] ELSE JNone

\* bool(v)
Truthy(v) ==
  CASE v.kind = "none" -> FALSE
    [] v.kind = "list" -> v.items # << >>
    [] OTHER -> v.str # ""

\* a or b
Or(a, b) == IF Truthy(a) THEN a ELSE b

\* variant: data.get("data") or data.get("results") or []
Items_DataFirst(d) == Or(Or(Get(d, "data"), Get(d, "results")), JList(<< >>))

\* items = data.get("results") or data.get("data") or []
Items(d) == Or(Or(Get(d, "results"), Get(d, "data")), JList(<< >>))

Customer(item) == [model |-> "Customer", id |-> item.id]

\* TypeAdapter(list[Customer]).validate_python(items)
Validate(v) ==
  IF v.kind = "list" /\ \A i \in 1..Len(v.items) : v.items[i].valid
  THEN [ok |-> TRUE, customers |-> [i \in 1..Len(v.items) |-> Customer(v.items[i])]]
  ELSE [ok |-> FALSE, customers |-> << >>]

\* a call self._request(method, url, **kw) as the resource made it
RequestCall(method, url, kw, params) ==
  [method |-> method, url |-> url, kw |-> kw, params |-> params]

\* no resource is inside self._request
NoResourceCall == gen.pc # "request" /\ del.pc # "request"

\* customers.list(created_start=...): a generator is made; no code runs yet
List(created_start) ==
  /\ NoResourceCall
  /\ gen' = [NoGen EXCEPT !.pc = "created", !.created_start = created_start]
  /\ reqs' = [reqs EXCEPT !.customers = << >>]
  /\ UNCHANGED <<cfg, token, exp_ts, now, nExch, th, del, attr>>

\* the first next(): the body runs up to self._request("GET", ...)
ListStart(t) ==
  /\ gen.pc = "created"
  /\ NoResourceCall
  /\ th[t].pc \in {"idle", "done"}
  /\ gen' = [gen EXCEPT !.pc = "request"]
  /\ reqs' = [reqs EXCEPT !.customers =
                 Append(@, RequestCall("GET", CustomersBase(cfg), {"params"},
                                       ListParams(gen.created_start)))]
  /\ th' = [th EXCEPT ![t] = Enter(th[t], NoHeadersKw)]
  /\ UNCHANGED <<cfg, token, exp_ts, now, nExch, del, attr>>

\* self._request has ended: its exception leaves the generator as it is, or
\* the body goes on to r.json(), the choice of the items, the validation and
\* the first yield
ListResume(t) ==
  /\ gen.pc = "request"
  /\ th[t].pc = "done"
  /\ gen' =
       IF th[t].outcome.kind = "raise"
       THEN [gen EXCEPT !.pc = "raised", !.exc = th[t].outcome.type]
       ELSE LET j == Json(th[t].resp.text)
                v == Validate(Items(j.obj))
            IN IF ~j.ok
               THEN [gen EXCEPT !.pc = "raised", !.body = th[t].resp.text,
                                !.exc = "JSONDecodeError"]
               ELSE IF ~v.ok
               THEN [gen EXCEPT !.pc = "raised", !.body = th[t].resp.text,
                                !.exc = "ValidationError"]
               ELSE IF v.customers = << >>
               THEN [gen EXCEPT !.pc = "exhausted", !.body = th[t].resp.text]
               ELSE [gen EXCEPT !.pc = "yielding", !.body = th[t].resp.text,
                                !.items = v.customers,
                                !.yielded = <<v.customers[1]>>]
  /\ UNCHANGED <<cfg, token, exp_ts, now, nExch, th, del, reqs, attr>>

\* a later next(): the next customer, or StopIteration
ListNext ==
  /\ gen.pc = "yielding"
  /\ gen' =
       IF Len(gen.yielded) < Len(gen.items)
       THEN [gen EXCEPT !.yielded = Append(@, gen.items[Len(gen.yielded) + 1])]
       ELSE [gen EXCEPT !.pc = "exhausted"]
  /\ UNCHANGED <<cfg, token, exp_ts, now, nExch, th, del, reqs, attr>>

\* webhooks.delete(webhook_id) up to self._request("DELETE", ...)
Delete(t, webhook_id) ==
  /\ NoResourceCall
  /\ th[t].pc \in {"idle", "done"}
  /\ del' = [NoDel EXCEPT !.pc = "request", !.webhook_id = webhook_id]
  /\ reqs' = [reqs EXCEPT !.webhooks =
                 <<RequestCall("DELETE", WebhookUrl(cfg, webhook_id), {}, EmptyParams)>>]
  /\ th' = [th EXCEPT ![t] = Enter(th[t], NoHeadersKw)]
  /\ UNCHANGED <<cfg, token, exp_ts, now, nExch, gen, attr>>

\* variant: every status the transport lets through is a success
DeleteFails_Never(status) == FALSE

\* if r.status_code != 200: raise Exception(...)
DeleteFails(status) == status # 200

\* self._request has ended: its exception leaves delete() as it is, or the
\* status is looked at
DeleteResume(t) ==
  /\ del.pc = "request"
  /\ th[t].pc = "done"
  /\ del' =
       IF th[t].outcome.kind = "raise"
       THEN [del EXCEPT !.pc = "raised", !.exc = th[t].outcome.type]
       ELSE IF DeleteFails(th[t].resp.status)
       THEN [del EXCEPT !.pc = "raised", !.exc = "Exception",
                        !.message = <<"Failed to delete webhook with ID ",
                                      del.webhook_id, ". Status code: ",
                                      ToString(th[t].resp.status)>>]
       ELSE [del EXCEPT !.pc = "returned"]
  /\ UNCHANGED <<cfg, token, exp_ts, now, nExch, th, gen, reqs, attr>>

\* config.<name> = value on the frozen dataclass: FrozenInstanceError
SetAttr(name) ==
  /\ attr' = [name |-> name, exc |-> "FrozenInstanceError"]
  /\ UNCHANGED <<cfg, token, exp_ts, now, nExch, th, gen, del, reqs>>

ResourceConfigs ==
  { Config(NoArgs),
    Config([username |-> "test_user", access_key |-> "test_user",
            partner_id |-> "test_partner"]),
    Config([base_url |-> "https://custom.api.com", username |-> "test_user",
            access_key |-> "test_user"]) }

ResStep(t) ==
  \/ \E cs \in CreatedStarts : List(cs)
  \/ ListStart(t)
  \/ ListResume(t)
  \/ ListNext
  \/ \E id \in WebhookIds : Delete(t, id)
  \/ DeleteResume(t)
  \/ \E f \in {"base_url", "username"} : SetAttr(f)
  \/ TokenCheck(t)
  \/ FetchOk(t, NoExpiresIn)
  \/ \E x \in Bodies : SendResponse(t, 200, x)
  \/ \E s \in {204, 400, 401} : SendResponse(t, s, "")
  \/ SendRaise(t, "ConnectTimeout")

NextResources == \E t \in Callers : ResStep(t)

InitResources ==
  /\ cfg \in ResourceConfigs
  /\ token = NoToken
  /\ exp_ts = NoExpiry
  /\ now = 0
  /\ nExch = 0
  /\ th = [t \in Threads |-> Idle]
  /\ gen = NoGen
  /\ del = NoDel
  /\ reqs = NoReqs
  /\ attr = NoAttr

SpecResources == InitResources /\ [][NextResources]_vars

\* ======================================================================
\* Properties
\* ======================================================================
IsResponse(e) == e.op = "http" /\ e.res = "response"

\* position in log l of the first HTTP call that completed with a response
FirstRespPos(l) ==
  IF \E k \in 1..Len(l) : IsResponse(l[k])
  THEN CHOOSE k \in 1..Len(l) :
         IsResponse(l[k]) /\ \A j \in 1..(k - 1) : ~IsResponse(l[j])
  ELSE 0

\* a finished request() whose first completed response was a 401
Finished401(r) ==
  /\ r.op = "request"
  /\ r.pc = "done"
  /\ FirstRespPos(r.log) > 0
  /\ r.log[FirstRespPos(r.log)].status = 401

After(l, p) == SubSeq(l, p + 1, Len(l))

\* the response a finished request() returned is the last HTTP call's, 200
ReturnsLast200(r) ==
  LET h == Https(r.log) IN
    (IsResponse(h[Len(h)]) /\ h[Len(h)].status = 200)
      => r.outcome = Returned([id |-> Len(h), status |-> 200, text |-> h[Len(h)].text])

\* C1 as stated: after a first response of 401, request() performs exactly
\* one forced refetch and issues exactly one further HTTP call, and returns
\* the second response when that is a 200.
C1_Original ==
  \A t \in Threads :
    Finished401(th[t]) =>
      LET l == th[t].log
          p == FirstRespPos(l)
      IN /\ Len(ForcedFetches(l)) = 1
         /\ Len(Https(After(l, p))) = 1
         /\ ReturnsLast200(th[t])

\* C1 amended: after a first response of 401, request() performs exactly one
\* forced refetch; it issues exactly one further HTTP call when that refetch
\* and every exchange made to rebuild the headers succeed, and none when one
\* of them fails; when the further call answers 200, request() returns that
\* second response (not the first) and raises nothing.
C1_Retry401 ==
  \A t \in Threads :
    Finished401(th[t]) =>
      LET l == th[t].log
          p == FirstRespPos(l)
          after == After(l, p)
          fetchesOk == \A k \in 1..Len(after) :
                         after[k].op = "fetch" => after[k].res = "ok"
      IN /\ Len(ForcedFetches(l)) = 1
         /\ Len(Https(after)) = IF fetchesOk THEN 1 ELSE 0
         /\ Len(Https(after)) = 1 =>
              /\ ReturnsLast200(th[t])
              /\ th[t].outcome.kind = "return" =>
                   th[t].outcome.resp # Len(Https(SubSeq(l, 1, p)))
         /\ ~fetchesOk => th[t].outcome.kind = "raise"

C1_Witness ==
  \E t \in Threads :
    /\ Finished401(th[t])
    /\ Len(Https(th[t].log)) = 2
    /\ th[t].outcome.kind = "return"
    /\ th[t].outcome.resp = 2
    /\ th[t].outcome.status = 200

\* C2 as stated: when every HTTP attempt of a request() fails with
\* httpx.ConnectError or httpx.ReadError, request() has made 3 attempts when
\* it fails with ConnectionError.
C2_Original ==
  \A t \in Threads :
    LET h == Https(th[t].log) IN
      ( /\ th[t].op = "request"
        /\ th[t].pc = "done"
        /\ Len(h) >= 1
        /\ \A k \in 1..Len(h) : h[k].res \in {"ConnectError", "ReadError"} )
      => /\ Len(h) = StopAfterAttempt
         /\ th[t].outcome.kind = "raise"
         /\ th[t].outcome.type = "APIConnectionError"

\* C3 as stated: every HTTP attempt of a request(), the one after a 401
\* included, is sent with all the headers the caller passed.
C3_Original ==
  \A t \in Threads :
    \A k \in 1..Len(th[t].log) :
      th[t].log[k].op = "http" =>
        \A n \in DOMAIN th[t].args.headers :
          /\ n \in DOMAIN th[t].log[k].headers
          /\ th[t].log[k].headers[n] = th[t].args.headers[n]

\* C4: a request() makes at most one forced refetch and at most two HTTP
\* calls; when the re-issued call answers 401 too, nothing follows it and
\* request() raises ResponseError with status 401 taken from that second
\* response.
C4_AtMostOnce ==
  \A t \in Threads :
    th[t].op = "request" =>
      LET l == th[t].log
          h == Https(l)
      IN /\ Len(ForcedFetches(l)) <= 1
         /\ Len(h) <= 2
         /\ (Len(h) = 2 /\ IsResponse(h[2]) /\ h[2].status = 401) =>
              /\ l[Len(l)] = h[2]
              /\ th[t].pc = "done"
              /\ th[t].outcome =
                   [Raised(ExcMsg("APIResponseError", 401, h[2].text))
                      EXCEPT !.resp = 2]

C4_Witness ==
  \E t \in Threads :
    LET h == Https(th[t].log) IN
      /\ Finished401(th[t])
      /\ Len(h) = 2
      /\ IsResponse(h[2])
      /\ h[2].status = 401

\* position in log l of the HTTP call re-issued after the first response
RetryPos(l) ==
  LET p == FirstRespPos(l) IN
    IF p > 0 /\ \E k \in (p + 1)..Len(l) : l[k].op = "http"
    THEN CHOOSE k \in (p + 1)..Len(l) : l[k].op = "http"
    ELSE 0

\* position of the last exchange before position q of log l
LastFetchBefore(l, q) ==
  IF \E k \in 1..(q - 1) : l[k].op = "fetch"
  THEN CHOOSE k \in 1..(q - 1) :
         l[k].op = "fetch" /\ \A j \in (k + 1)..(q - 1) : l[j].op # "fetch"
  ELSE 0

\* C5 as stated: the call re-issued after a 401 carries in Authorization
\* the token the forced refetch obtained, and not the token of the first
\* attempt.
C5_Original ==
  \A t \in Threads :
    LET l == th[t].log
        p == FirstRespPos(l)
        q == RetryPos(l)
    IN (th[t].op = "request" /\ q > 0 /\ l[p].status = 401) =>
         /\ \E f \in (p + 1)..(q - 1) :
              /\ l[f].op = "fetch"
              /\ l[f].why = "forced"
              /\ l[f].res = "ok"
              /\ l[q].headers["Authorization"] = Bearer(l[f].tok)
         /\ l[q].headers["Authorization"] # l[p].headers["Authorization"]

\* C5 amended: the forced refetch completes before the re-issued call builds
\* its headers, and the Authorization header of that call carries the token
\* the cache holds once the forced refetch has replaced it: the token of the
\* forced refetch, or, when that token has already reached its expiry as the
\* headers are rebuilt, the token of the exchange getToken() then makes;
\* never the token sent on the first (401) attempt.
C5_FreshToken ==
  \A t \in Threads :
    LET l == th[t].log
        p == FirstRespPos(l)
        q == RetryPos(l)
        g == LastFetchBefore(l, q)
    IN (th[t].op = "request" /\ q > 0 /\ l[p].status = 401) =>
         /\ \E f \in (p + 1)..(q - 1) :
              l[f].op = "fetch" /\ l[f].why = "forced" /\ l[f].res = "ok"
         /\ g > p
         /\ l[g].res = "ok"
         /\ l[g].why \in {"forced", "at_expiry", "past_expiry"}
         /\ l[q].headers["Authorization"] = Bearer(l[g].tok)
         /\ l[q].headers["Authorization"] # l[p].headers["Authorization"]

C5_Witness ==
  \E t \in Threads :
    LET l == th[t].log
        p == FirstRespPos(l)
        q == RetryPos(l)
    IN /\ th[t].op = "request"
       /\ q > 0
       /\ l[p].status = 401
       /\ l[p].headers["Authorization"] = Bearer(1)
       /\ l[q].headers["Authorization"] = Bearer(2)

\* C6: an HTTP attempt of request() that fails with httpx.ConnectTimeout is
\* the last thing the call does: request() raises TimeoutError (not
\* ConnectionError) and no attempt follows.
C6_ConnectTimeout ==
  \A t \in Threads :
    th[t].op = "request" =>
      \A k \in 1..Len(th[t].log) :
        (th[t].log[k].op = "http" /\ th[t].log[k].res = "ConnectTimeout") =>
          /\ k = Len(th[t].log)
          /\ th[t].pc = "done"
          /\ th[t].outcome =
               Raised(ExcMsg("APITimeoutError", 0, th[t].log[k].text))

C6_Witness ==
  \E t \in Threads :
    LET h == Https(th[t].log) IN
      /\ th[t].op = "request"
      /\ th[t].pc = "done"
      /\ Len(h) = 2
      /\ h[2].res = "ConnectTimeout"
      /\ th[t].outcome.type = "APITimeoutError"

\* C7 as stated: a request() makes at most one credential exchange, only
\* after a first response of 401, and none when the first response is not
\* 401.
C7_Original ==
  \A t \in Threads :
    th[t].op = "request" =>
      LET l == th[t].log
          p == FirstRespPos(l)
      IN /\ Len(Fetches(l)) <= 1
         /\ \A k \in 1..Len(l) :
              l[k].op = "fetch" => (p > 0 /\ p < k /\ l[p].status = 401)

\* C7 amended: a request() makes at most one forced credential exchange,
\* and that one right after a first response of 401; a request whose first
\* response is not 401 makes no forced exchange.  Every other exchange is
\* one getToken() makes while the headers of a call are built because the
\* cache holds no valid token, at most one before each HTTP call: at most
\* three exchanges in a request, at most one when the first response is not
\* 401.
C7_Exchanges ==
  \A t \in Threads :
    th[t].op = "request" =>
      LET l == th[t].log
          p == FirstRespPos(l)
          first401 == p > 0 /\ l[p].status = 401
      IN /\ Len(ForcedFetches(l)) <= 1
         /\ \A k \in 1..Len(l) :
              (l[k].op = "fetch" /\ l[k].why = "forced") =>
                 (first401 /\ k = p + 1)
         /\ \A k \in 1..Len(l) :
              (l[k].op = "fetch" /\ l[k].why # "forced") =>
                 /\ l[k].why \in {"empty", "at_expiry", "past_expiry"}
                 /\ k > 1 => l[k - 1].why = "forced"
         /\ Len(Fetches(l)) <= 3
         /\ ~first401 => Len(Fetches(l)) <= 1

C7_Witness ==
  \E t \in Threads :
    /\ th[t].op = "request"
    /\ th[t].pc = "done"
    /\ Len(Fetches(th[t].log)) = 3
    /\ Len(ForcedFetches(th[t].log)) = 1
    /\ th[t].outcome.kind = "return"

Last(l) == l[Len(l)]

\* thread t takes the step of getToken() that looks at the cache
ChecksToken(t) == th[t].pc = "token" /\ th'[t] # th[t]

\* thread t takes the step of getToken() that exchanges the credentials
FetchesInToken(t) == th[t].pc = "fetch" /\ ~th[t].forced /\ th'[t] # th[t]

\* getToken() hands back the cached token and leaves the cache alone
ServedFromCache(t) ==
  /\ nExch' = nExch
  /\ token' = token
  /\ exp_ts' = exp_ts
  /\ th'[t].tokRet = token
  /\ th'[t].log = th[t].log
  /\ th'[t].pc \in {"done", "send"}

\* C8: while the cache holds a token with an expiry recorded and
\* now < expiresAt, a getToken() call returns that cached token and performs
\* no credential exchange, so the number of exchanges does not grow over any
\* sequence of such calls.
C8_TokenCaching ==
  [][\A t \in Threads :
       (ChecksToken(t) /\ token # NoToken /\ exp_ts # NoExpiry /\ now < exp_ts)
         => ServedFromCache(t)]_vars

C8_Witness ==
  \E t \in Threads :
    /\ th[t].op = "token"
    /\ th[t].pc = "done"
    /\ th[t].log = << >>
    /\ th[t].outcome = ReturnedToken(token)
    /\ nExch = 1
    /\ exp_ts # NoExpiry
    /\ now < exp_ts

\* C9: a getToken() call at a time now >= expiresAt, now = expiresAt
\* included, does not return the cached token: it goes on to a credential
\* exchange, and what it returns is the token that exchange fetched, which
\* replaces the old one in the cache.
C9_StrictExpiry ==
  [][\A t \in Threads :
       /\ (ChecksToken(t) /\ token # NoToken /\ exp_ts # NoExpiry /\ now >= exp_ts)
            => /\ th'[t].pc = "fetch"
               /\ ~th'[t].forced
               /\ th'[t].tokRet = NoToken
       /\ FetchesInToken(t)
            => /\ nExch' = nExch + 1
               /\ th'[t].tokRet # NoToken
                    => /\ th'[t].tokRet = token'
                       /\ token' # token
                       /\ Last(th'[t].log).tok = token'
                       /\ Last(th'[t].log).expires_in # NoExpiresIn
                            => exp_ts' = now + Last(th'[t].log).expires_in]_vars

C9_Witness ==
  \E t \in Threads :
    /\ th[t].op = "token"
    /\ th[t].pc = "done"
    /\ Len(th[t].log) = 1
    /\ th[t].log[1].why = "at_expiry"
    /\ th[t].log[1].res = "ok"
    /\ th[t].outcome = ReturnedToken(token)
    /\ token = nExch

NoCredentials == cfg.username = None \/ cfg.access_key = None

\* thread t takes a step that adds an event to its log
Logs(t) == th'[t] # th[t] /\ Len(th'[t].log) > Len(th[t].log)

\* C11 as stated: a request() that finds a token without expiry in the
\* cache and is answered 200 invokes the credential fetch exactly once.
C11_Original ==
  \A t \in Threads :
    LET h == Https(th[t].log) IN
      ( /\ th[t].op = "request"
        /\ th[t].pc = "done"
        /\ th[t].cache0.token # NoToken
        /\ th[t].cache0.exp_ts = NoExpiry
        /\ Len(h) >= 1
        /\ IsResponse(h[1])
        /\ h[1].status = 200 )
      => Len(Fetches(th[t].log)) = 1

\* C12: with username / access_key absent the client is constructed all
\* the same, no credential exchange is ever made, the cache stays empty, and
\* every getToken() call ends with the configuration error.
C12_MissingCredentials ==
  NoCredentials =>
    /\ nExch = 0
    /\ token = NoToken
    /\ exp_ts = NoExpiry
    /\ \A t \in Threads :
         /\ Fetches(th[t].log) = << >>
         /\ th[t].op = "token" =>
              /\ th[t].pc \in {"token", "done"}
              /\ th[t].pc = "done" =>
                   /\ th[t].outcome.kind = "raise"
                   /\ th[t].outcome.type = "ValueError"

C12_Witness ==
  \E t \in Threads :
    /\ NoCredentials
    /\ th[t].op = "token"
    /\ th[t].pc = "done"
    /\ th[t].outcome.type = "ValueError"

\* C13: a configuration error raised while request() obtains the token
\* reaches the caller as it is: no call to the target URL, no second attempt,
\* and not as ConnectionError, TimeoutError or ResponseError.
C13_ConfigErrorSurfaced ==
  \A t \in Threads :
    (th[t].op = "request" /\ NoCredentials) =>
      /\ th[t].log = << >>
      /\ th[t].attempt = 1
      /\ th[t].pc \in {"token", "done"}
      /\ th[t].pc = "done" =>
           th[t].outcome =
             Raised(ExcMsg("ValueError", 0,
                           "username, access_key and partner_id are required"))

C13_Witness ==
  \E t \in Threads :
    /\ th[t].op = "request"
    /\ th[t].pc = "done"
    /\ th[t].outcome.type = "ValueError"
    /\ th[t].log = << >>

\* C14: when the last thing a request() did is receive a response, it
\* raises ResponseError with that response's status and body text if the
\* status is >= 400 (400 included) and returns that response otherwise (399
\* included).
C14_Classification ==
  \A t \in Threads :
    ( /\ th[t].op = "request"
      /\ th[t].pc = "done"
      /\ th[t].log # << >>
      /\ IsResponse(Last(th[t].log)) )
    => LET e == Last(th[t].log)
           n == Len(Https(th[t].log))
       IN IF e.status >= 400
          THEN th[t].outcome =
                 [Raised(ExcMsg("APIResponseError", e.status, e.text))
                    EXCEPT !.resp = n]
          ELSE th[t].outcome =
                 Returned([id |-> n, status |-> e.status, text |-> e.text])

C14_Witness ==
  \E t \in Threads :
    /\ th[t].op = "request"
    /\ th[t].pc = "done"
    /\ th[t].log # << >>
    /\ IsResponse(Last(th[t].log))
    /\ Last(th[t].log).status = 400
    /\ th[t].outcome.kind = "raise"
    /\ th[t].outcome.status = 400
    /\ th[t].outcome.message = "Not Found"

\* C15: a credential exchange answered 200 without access_token ends the
\* call with ResponseError of status 500 and the message "No access_token in
\* response", returns no token and leaves the cache as it was.
C15_NoAccessToken ==
  [][\A t \in Threads :
       (Logs(t) /\ Last(th'[t].log).res = "no_token") =>
          /\ Last(th'[t].log).status = 200
          /\ th'[t].pc = "done"
          /\ th'[t].outcome =
               Raised(ExcMsg("APIResponseError", 500, "No access_token in response"))
          /\ ~th[t].forced => th'[t].tokRet = NoToken
          /\ token' = token
          /\ exp_ts' = exp_ts]_vars

C15_Witness ==
  \E t \in Threads :
    /\ th[t].op = "token"
    /\ th[t].pc = "done"
    /\ th[t].log # << >>
    /\ Last(th[t].log).res = "no_token"
    /\ th[t].outcome.status = 500
    /\ token = NoToken

\* C16: a credential exchange answered with a non-2xx status ends the call
\* with ResponseError carrying that status and the body text of the answer,
\* and returns no token.
C16_FetchHttpError ==
  [][\A t \in Threads :
       (Logs(t) /\ Last(th'[t].log).res = "http_error") =>
          LET e == Last(th'[t].log) IN
            /\ e.status \notin 200..299
            /\ th'[t].pc = "done"
            /\ th'[t].outcome = Raised(ExcMsg("APIResponseError", e.status, e.text))
            /\ ~th[t].forced => th'[t].tokRet = NoToken
            /\ token' = token]_vars

C16_Witness ==
  \E t \in Threads :
    /\ th[t].op = "token"
    /\ th[t].pc = "done"
    /\ th[t].log # << >>
    /\ Last(th[t].log).res = "http_error"
    /\ th[t].outcome.type = "APIResponseError"
    /\ th[t].outcome.status = 401
    /\ th[t].outcome.message = "Unauthorized"

\* C17: after a first response of 401 request() goes to the credential
\* exchange without looking at the cache; that exchange is made whether or
\* not the cached token is still valid, and when it succeeds the cached
\* token and its expiry are both replaced by what it fetched.
C17_ForcedRefetch ==
  [][\A t \in Threads :
       /\ ( /\ th[t].pc = "send"
            /\ th[t].stage = 1
            /\ Logs(t)
            /\ IsResponse(Last(th'[t].log))
            /\ Last(th'[t].log).status = 401 )
          => (th'[t].pc = "fetch" /\ th'[t].forced)
       /\ (th[t].pc = "fetch" /\ th[t].forced /\ th'[t] # th[t]) =>
            LET e == Last(th'[t].log) IN
              /\ Logs(t)
              /\ nExch' = nExch + 1
              /\ e.op = "fetch"
              /\ e.why = "forced"
              /\ e.valid = (token # NoToken /\ (exp_ts = NoExpiry \/ now < exp_ts))
              /\ e.res = "ok" =>
                   /\ token' = e.tok
                   /\ token' # token
                   /\ exp_ts' = IF e.expires_in = NoExpiresIn
                                THEN NoExpiry ELSE now + e.expires_in]_vars

C17_Witness ==
  \E t \in Threads :
    /\ th[t].log # << >>
    /\ Last(th[t].log).why = "forced"
    /\ Last(th[t].log).valid
    /\ Last(th[t].log).res = "ok"
    /\ Last(th[t].log).expires_in = 2
    /\ token = Last(th[t].log).tok
    /\ exp_ts = now + 2
    /\ th[t].cache0.exp_ts = NoExpiry

\* C18 as stated: on every HTTP attempt of a request() the headers sent are
\* Partner-Id and Authorization as the transport builds them, overridden and
\* extended by the headers the caller passed.
C18_Original ==
  \A t \in Threads :
    \A k \in 1..Len(th[t].log) :
      th[t].log[k].op = "http" =>
        LET sent == th[t].log[k].headers
            mine == th[t].args.headers
        IN /\ DOMAIN sent = {"Partner-Id", "Authorization"} \cup DOMAIN mine
           /\ \A n \in DOMAIN sent :
                IF n \in DOMAIN mine
                THEN sent[n] = mine[n]
                ELSE IF n = "Authorization"
                THEN sent[n][1] = "Bearer"
                ELSE sent[n] = IF cfg.partner_id = None
                               THEN Str("") ELSE Str(cfg.partner_id)

\* C19: when the caller passes no Authorization and no Partner-Id header,
\* every HTTP attempt is sent with Authorization = "Bearer " + the token the
\* cache returned as the headers were built, and with Partner-Id = the
\* configured partner id, or "" when none is configured.
C19_BuiltHeaders ==
  [][\A t \in Threads :
       /\ (th[t].pc \in {"token", "fetch"} /\ th'[t].pc = "send") =>
            /\ th'[t].tokRet = token'
            /\ th'[t].tokRet # NoToken
       /\ ( /\ th[t].pc = "send"
            /\ Logs(t)
            /\ DOMAIN th[t].args.headers \cap {"Authorization", "Partner-Id"} = {} )
          => LET sent == Last(th'[t].log).headers IN
               /\ sent["Authorization"] = <<"Bearer", th[t].tokRet>>
               /\ sent["Partner-Id"] =
                    IF cfg.partner_id = None
                    THEN <<"", 0>> ELSE <<cfg.partner_id, 0>>]_vars

C19_Witness ==
  \E t \in Threads :
    LET h == Https(th[t].log) IN
      /\ Len(h) = 2
      /\ cfg.partner_id = None
      /\ "X-Custom-Header" \in DOMAIN h[1].headers
      /\ h[1].headers["Partner-Id"] = <<"", 0>>
      /\ h[1].headers["Authorization"] = <<"Bearer", 1>>
      /\ h[2].headers["Partner-Id"] = <<"", 0>>
      /\ h[2].headers["Authorization"] = <<"Bearer", 2>>

\* C20: an HTTP attempt of request() that fails with an httpx error other
\* than ConnectTimeout (connection or read error, read timeout) ends the
\* call with ConnectionError carrying the message of that error; not with
\* TimeoutError or ResponseError.
C20_ConnectionError ==
  \A t \in Threads :
    th[t].op = "request" =>
      \A k \in 1..Len(th[t].log) :
        ( /\ th[t].log[k].op = "http"
          /\ th[t].log[k].res \in {"ConnectError", "ReadError", "ReadTimeout"} )
        => /\ th[t].pc = "done"
           /\ th[t].outcome =
                Raised(ExcMsg("APIConnectionError", 0, th[t].log[k].text))
           /\ th[t].log[k].text # ""

C20_Witness ==
  \E t \in Threads :
    /\ th[t].op = "request"
    /\ th[t].pc = "done"
    /\ th[t].log # << >>
    /\ Last(th[t].log).res = "ReadTimeout"
    /\ th[t].outcome.type = "APIConnectionError"
    /\ th[t].outcome.message = "The read operation timed out"

\* C21: whatever the earlier calls on the client went through (a 401 retry
\* used, an exception raised), a request() starts at its first stage and
\* first attempt; when its first response is 401 the forced refetch follows,
\* and the call is re-issued once if every exchange after the 401 succeeds;
\* what it returns is the last response it received itself.
C21_SelfContained ==
  \A t \in Threads :
    (th[t].op = "request" /\ th[t].earlier.on) =>
      LET l == th[t].log
          p == FirstRespPos(l)
          h == Https(l)
      IN /\ l = << >> => (th[t].stage = 1 /\ th[t].attempt = 1 /\ ~th[t].forced)
         /\ (p > 0 /\ l[p].status = 401) =>
              /\ Len(l) = p => (th[t].pc = "fetch" /\ th[t].forced)
              /\ Len(l) > p => (l[p + 1].op = "fetch" /\ l[p + 1].why = "forced")
              /\ ( /\ th[t].pc = "done"
                   /\ \A k \in (p + 1)..Len(l) :
                        l[k].op = "fetch" => l[k].res = "ok" )
                 => Len(h) = 2
         /\ (th[t].pc = "done" /\ th[t].outcome.kind = "return") =>
              /\ IsResponse(Last(l))
              /\ th[t].outcome.resp = Len(h)
              /\ th[t].outcome.status = Last(l).status

C21_Witness ==
  \E t \in Threads :
    /\ th[t].earlier.retried
    /\ th[t].earlier.failed
    /\ Finished401(th[t])
    /\ Len(Https(th[t].log)) = 2
    /\ th[t].outcome.kind = "return"
    /\ th[t].outcome.resp = 2

\* C26: when the forced refetch after a 401 is answered with a non-2xx
\* status or with a 200 without access_token, it is the last thing the
\* request() does: the target URL has been called once only, and request()
\* raises the ResponseError of that exchange (the status and body of the
\* token endpoint, or 500 "No access_token in response"), not an error made
\* from the 401 response.
C26_RefetchFails ==
  \A t \in Threads :
    th[t].op = "request" =>
      LET l == th[t].log IN
        \A k \in 1..Len(l) :
          ( /\ l[k].op = "fetch"
            /\ l[k].why = "forced"
            /\ l[k].res \in {"http_error", "no_token"} )
          => /\ k = Len(l)
             /\ th[t].pc = "done"
             /\ Len(Https(l)) = 1
             /\ th[t].outcome =
                  Raised(ExcMsg("APIResponseError",
                                IF l[k].res = "no_token" THEN 500 ELSE l[k].status,
                                IF l[k].res = "no_token"
                                THEN "No access_token in response" ELSE l[k].text))
             /\ th[t].outcome.resp = 0

C26_Witness ==
  \E t \in Threads :
    /\ th[t].op = "request"
    /\ th[t].pc = "done"
    /\ Len(th[t].log) = 2
    /\ th[t].log[1].status = 401
    /\ th[t].log[2].why = "forced"
    /\ th[t].log[2].res = "http_error"
    /\ th[t].log[2].status = 500
    /\ th[t].outcome.type = "APIResponseError"
    /\ th[t].outcome.status = 500
    /\ th[t].outcome.message = "Unauthorized"

\* the error kinds a caller of request() branches on
ErrorKinds == {"ValueError", "APITimeoutError", "APIConnectionError", "APIResponseError"}

\* C27: a request() that has ended has exactly one outcome: it returned a
\* response with status < 400, or it raised one of ConfigurationError,
\* TimeoutError, ConnectionError, ResponseError; no httpx exception and no
\* response with status >= 400 reaches the caller, and a call still running
\* has no outcome.
C27_FiveOutcomes ==
  \A t \in Threads :
    th[t].op = "request" =>
      IF th[t].pc = "done"
      THEN \/ /\ th[t].outcome.kind = "return"
              /\ th[t].outcome.type = ""
              /\ th[t].outcome.status < 400
              /\ th[t].outcome.resp > 0
           \/ /\ th[t].outcome.kind = "raise"
              /\ th[t].outcome.type \in ErrorKinds
              /\ th[t].outcome.type \notin HTTPErrorTypes
              /\ th[t].outcome.type = "APIResponseError" => th[t].outcome.status >= 400
      ELSE th[t].outcome = NoOutcome

C27_Witness ==
  \E t \in Threads :
    /\ th[t].op = "request"
    /\ th[t].pc = "done"
    /\ Len(th[t].log) = 3
    /\ th[t].log[3].op = "fetch"
    /\ th[t].log[3].res = "ConnectError"
    /\ th[t].outcome.kind = "raise"
    /\ th[t].outcome.type = "APIConnectionError"

\* the steps the call of thread record r can still take, at most
Rank(r) ==
  IF r.pc \in {"idle", "done"} THEN 0
  ELSE IF r.op = "token" THEN (IF r.pc = "token" THEN 2 ELSE 1)
  ELSE (StopAfterAttempt - r.attempt) * 8
       + (IF r.stage = 1
          THEN (CASE r.pc = "token" -> 7
                  [] r.pc = "fetch" /\ ~r.forced -> 6
                  [] r.pc = "send" -> 5
                  [] OTHER -> 4)
          ELSE (CASE r.pc = "token" -> 3
                  [] r.pc = "fetch" -> 2
                  [] OTHER -> 1))

\* C28: every step of a call, whatever the server and the network answer,
\* brings the call strictly closer to its end (the number of steps it can
\* still take decreases and is never negative), so every call ends after a
\* bounded number of steps; a request() makes at most 3 attempts, in each
\* attempt at most two HTTP calls, one forced refetch and three exchanges.
C28_Terminates ==
  [][\A t \in Threads :
       (th[t].pc \in {"token", "fetch", "send"} /\ th'[t] # th[t]) =>
          /\ Rank(th'[t]) < Rank(th[t])
          /\ Rank(th'[t]) >= 0
          /\ th'[t].attempt <= StopAfterAttempt
          /\ th'[t].op = "request" =>
               /\ th'[t].attempt >= 1
               /\ Len(Https(th'[t].log)) <= 2 * th'[t].attempt
               /\ Len(ForcedFetches(th'[t].log)) <= th'[t].attempt
               /\ Len(Fetches(th'[t].log)) <= 3 * th'[t].attempt]_vars

C28_Witness ==
  \E t \in Threads :
    /\ th[t].op = "request"
    /\ th[t].pc = "done"
    /\ th[t].attempt = 1
    /\ Len(th[t].log) = 5
    /\ Len(Https(th[t].log)) = 2
    /\ Last(th[t].log).status = 401
    /\ th[t].outcome.kind = "raise"

\* C29: a credential exchange answered with a non-2xx status or with a 200
\* without access_token changes neither the cached token nor its expiry: a
\* cached token is not cleared or replaced and an empty cache stays empty;
\* when it is the first exchange of the call, the cache is as the call found
\* it.
C29_FailedExchange ==
  [][\A t \in Threads :
       ( /\ Logs(t)
         /\ Last(th'[t].log).op = "fetch"
         /\ Last(th'[t].log).res \in {"http_error", "no_token"} )
       => /\ nExch' = nExch + 1
          /\ token' = token
          /\ exp_ts' = exp_ts
          /\ Fetches(th[t].log) = << >> =>
               /\ token' = th[t].cache0.token
               /\ exp_ts' = th[t].cache0.exp_ts]_vars

C29_Witness ==
  \E t \in Threads :
    /\ th[t].op = "token"
    /\ th[t].pc = "done"
    /\ Len(th[t].log) = 1
    /\ th[t].log[1].res = "no_token"
    /\ th[t].log[1].why = "at_expiry"
    /\ token # NoToken
    /\ token = th[t].cache0.token
    /\ exp_ts = now
    /\ exp_ts = th[t].cache0.exp_ts

\* C22: nothing makes a getToken() that found no valid token wait for, or
\* look at, an exchange another call is making: every call that went past
\* the validity test makes its own exchange and replaces the cached token,
\* also when another call has refreshed the cache in between; so two calls
\* that found the same expired (or absent) token can both exchange.
C22_NoSingleFlight ==
  [][\A t \in Threads :
       /\ (ChecksToken(t) /\ HasCredentials(cfg) /\ ~TokenValid(token, exp_ts, now))
            => th'[t].pc = "fetch"
       /\ FetchesInToken(t)
            => /\ nExch' = nExch + 1
               /\ Logs(t)
               /\ Last(th'[t].log).op = "fetch"
               /\ Last(th'[t].log).valid = TokenValid(token, exp_ts, now)
               /\ token' = Last(th'[t].log).tok
               /\ token' # token]_vars

C22_Witness ==
  /\ th[1].op = "token"
  /\ th[2].op = "token"
  /\ th[1].pc = "done"
  /\ th[2].pc = "done"
  /\ th[1].cache0 = th[2].cache0
  /\ th[1].cache0.token = 1
  /\ th[1].cache0.exp_ts = now
  /\ Len(th[1].log) = 1
  /\ Len(th[2].log) = 1
  /\ th[1].log[1].why = "at_expiry"
  /\ th[2].log[1].valid
  /\ th[1].outcome.tok = 2
  /\ th[2].outcome.tok = 3
  /\ nExch = 3

\* the ids of a sequence of customer objects
Ids(l) == [i \in 1..Len(l) |-> l[i].id]

\* C23: for a payload whose results and data values are lists or null,
\* what list() yields is, in the order of the payload, the results list when
\* that is not empty, the data list otherwise when that is not empty, and
\* nothing otherwise; with neither key, or with empty results and no data,
\* it ends without a customer and without an error; when the chosen objects
\* are all valid customers no error is raised.
C23_ListItems ==
  LET d == Json(gen.body).obj
      res == IF "results" \in DOMAIN d THEN d["results"] ELSE JNone
      dat == IF "data" \in DOMAIN d THEN d["data"] ELSE JNone
      chosen == IF res.kind = "list" /\ Len(res.items) > 0 THEN res.items
                ELSE IF dat.kind = "list" /\ Len(dat.items) > 0 THEN dat.items
                ELSE << >>
      ended == gen.pc \in {"yielding", "exhausted", "raised"} /\ gen.body # ""
  IN /\ gen.pc = "exhausted" => gen.yielded = [i \in 1..Len(chosen) |-> Customer(chosen[i])]
     /\ gen.pc = "yielding" =>
          /\ Len(gen.yielded) \in 1..Len(chosen)
          /\ Ids(gen.yielded) = Ids(SubSeq(chosen, 1, Len(gen.yielded)))
     /\ (ended /\ res.kind # "str" /\ \A i \in 1..Len(chosen) : chosen[i].valid)
          => (gen.pc # "raised" /\ gen.exc = "")
     /\ (ended /\ (DOMAIN d = {} \/ (DOMAIN d = {"results"} /\ res = JList(<< >>))))
          => (gen.pc = "exhausted" /\ gen.yielded = << >> /\ gen.exc = "")

C23_Witness ==
  /\ gen.pc = "exhausted"
  /\ gen.body = "{\"results\": null, \"data\": [c3, c1]}"
  /\ Ids(gen.yielded) = <<"test-id-3", "test-id-1">>

\* C24: a list() that has not been consumed has made no request; once
\* consumed it has made exactly one, self._request("GET",
\* <base_url>/v1/customers, params=...), whose params are
\* {"created_start": <the caller's value>} when a non-empty created_start was
\* given and {} otherwise.
C24_ListRequest ==
  /\ gen.pc = "created" => reqs.customers = << >>
  /\ gen.pc \in {"request", "yielding", "exhausted", "raised"} =>
       /\ Len(reqs.customers) = 1
       /\ reqs.customers[1].method = "GET"
       /\ reqs.customers[1].url = <<cfg.base_url, "/v1/customers">>
       /\ reqs.customers[1].kw = {"params"}
       /\ IF gen.created_start \notin {None, ""}
          THEN /\ DOMAIN reqs.customers[1].params = {"created_start"}
               /\ reqs.customers[1].params["created_start"] = gen.created_start
          ELSE DOMAIN reqs.customers[1].params = {}

C24_Witness ==
  /\ gen.pc = "exhausted"
  /\ gen.created_start = "2024-01-01T00:00:00Z"
  /\ Len(gen.yielded) = 2
  /\ cfg.base_url = "https://custom.api.com"
  /\ reqs.customers[1].url = <<"https://custom.api.com", "/v1/customers">>
  /\ reqs.customers[1].params["created_start"] = "2024-01-01T00:00:00Z"

\* C25 as stated: a Config made with no arguments has base_url
\* "https://api.siigo.com", timeout 30.0, user_agent "siigo_connector/0.1.0
\* (+https://github.com/arendondiosa/siigo-connector-py)" and username,
\* access_key and partner_id None; and no step changes a field of a Config.
C25_Original ==
  [][/\ cfg = Config(NoArgs) =>
          /\ cfg.base_url = "https://api.siigo.com"
          /\ cfg.timeout = 30
          /\ cfg.user_agent =
               "siigo_connector/0.1.0 (+https://github.com/arendondiosa/siigo-connector-py)"
          /\ cfg.username = None
          /\ cfg.access_key = None
          /\ cfg.partner_id = None
     /\ cfg' = cfg]_vars

\* C30: delete(webhook_id) makes one call self._request("DELETE",
\* <base_url>/v1/webhooks/<webhook_id>); an exception of that call leaves
\* delete() as it is; when the call returns a response, delete() returns
\* None if its status is 200 and raises Exception for every other status,
\* which is then a status < 400 that the transport has let through.
C30_DeleteStatus ==
  [][/\ del'.pc # "none" =>
          reqs'.webhooks =
            <<[method |-> "DELETE",
               url |-> <<cfg.base_url, "/v1/webhooks", "/", del'.webhook_id>>,
               kw |-> {}, params |-> EmptyParams]>>
     /\ (del.pc = "request" /\ del'.pc # "request") =>
          \E t \in Callers :
            /\ th[t].pc = "done"
            /\ IF th[t].outcome.kind = "return"
               THEN IF th[t].outcome.status = 200
                    THEN del'.pc = "returned" /\ del'.exc = ""
                    ELSE /\ del'.pc = "raised"
                         /\ del'.exc = "Exception"
                         /\ th[t].outcome.status < 400
               ELSE /\ del'.pc = "raised"
                    /\ del'.exc = th[t].outcome.type
                    /\ del'.exc \in ErrorKinds]_vars

C30_Witness ==
  /\ del.pc = "raised"
  /\ del.exc = "Exception"
  /\ del.message = <<"Failed to delete webhook with ID ", "wh-1",
                     ". Status code: ", "204">>
  /\ th[1].outcome.kind = "return"
  /\ th[1].outcome.status = 204
  /\ Len(Https(th[1].log)) = 2

====
